---------------------------- MODULE Spec2Model ----------------------------
(***************************************************************************)
(* A model of the extractive text summarizer: Tokenizer (tokenizer.ts),    *)
(* TextRank (textrank.ts) and Summarizer (summarizer.ts).                  *)
(*                                                                         *)
(* A string is a sequence of one-character strings; a number of the        *)
(* program (an IEEE-754 double) is a record, see the section on doubles.   *)
(***************************************************************************)
EXTENDS Integers, Sequences, FiniteSets, TLC

(***************************************************************************)
(* Characters and the regular-expression classes the code uses.            *)
(***************************************************************************)
UpperSeq == << "A", "B", "C", "D", "E", "F", "G", "H", "I", "J", "K", "L", "M",
               "N", "O", "P", "Q", "R", "S", "T", "U", "V", "W", "X", "Y", "Z" >>
LowerSeq == << "a", "b", "c", "d", "e", "f", "g", "h", "i", "j", "k", "l", "m",
               "n", "o", "p", "q", "r", "s", "t", "u", "v", "w", "x", "y", "z" >>
Upper == { UpperSeq[i] : i \in 1..26 }
Lower == { LowerSeq[i] : i \in 1..26 }
Digit == { "0", "1", "2", "3", "4", "5", "6", "7", "8", "9" }
\* \s of a JavaScript regular expression, and what String.prototype.trim
\* strips, among the characters of the inputs
WhiteSpace == { " ", "\t", "\n", "\r", "\f" }
\* \w
WordChar == Upper \cup Lower \cup Digit \cup { "_" }
Terminator == { ".", "!", "?" }
Vowel == { "a", "e", "i", "o", "u" }

toLowerCase(s) ==
    [ i \in 1..Len(s) |->
        IF s[i] \in Upper
        THEN LowerSeq[CHOOSE k \in 1..26 : UpperSeq[k] = s[i]]
        ELSE s[i] ]

\* String.prototype.trim
trim(s) ==
    LET keep == { i \in 1..Len(s) : s[i] \notin WhiteSpace }
    IN  IF keep = {} THEN << >>
        ELSE SubSeq(s, CHOOSE i \in keep : \A j \in keep : i <= j,
                       CHOOSE i \in keep : \A j \in keep : j <= i)

\* the first index >= i of s whose character is not in class, Len(s)+1 if none
RECURSIVE RunEnd(_, _, _)
RunEnd(s, i, class) ==
    IF i > Len(s) \/ s[i] \notin class THEN i ELSE RunEnd(s, i + 1, class)

startsWithAt(s, i, p) ==
    /\ i + Len(p) - 1 <= Len(s)
    /\ \A k \in 1..Len(p) : s[i + k - 1] = p[k]

endsWith(s, p) ==
    /\ Len(p) <= Len(s)
    /\ startsWithAt(s, Len(s) - Len(p) + 1, p)

\* s.replace(/p/g, r) for a literal pattern p: leftmost matches, not overlapping
RECURSIVE replaceAllFrom(_, _, _, _)
replaceAllFrom(s, i, p, r) ==
    IF i > Len(s) THEN << >>
    ELSE IF startsWithAt(s, i, p) THEN r \o replaceAllFrom(s, i + Len(p), p, r)
    ELSE << s[i] >> \o replaceAllFrom(s, i + 1, p, r)

\* Array.prototype.join
RECURSIVE join(_, _)
join(parts, sep) ==
    IF Len(parts) = 0 THEN << >>
    ELSE IF Len(parts) = 1 THEN parts[1]
    ELSE parts[1] \o sep \o join(Tail(parts), sep)

\* Array.prototype.slice(from, to) with its rule for negative indices
sliceIndex(n, k) == IF k < 0 THEN (IF n + k < 0 THEN 0 ELSE n + k)
                    ELSE (IF k > n THEN n ELSE k)
slice(xs, from, to) ==
    LET a == sliceIndex(Len(xs), from)
        b == sliceIndex(Len(xs), to)
    IN  IF a >= b THEN << >> ELSE SubSeq(xs, a + 1, b)

(***************************************************************************)
(* Tokenizer.splitSentences                                                *)
(***************************************************************************)
MARKER == << "_", "P", "E", "R", "I", "O", "D", "_" >>

\* A match of /([A-Z][a-z]+\.)(\s[A-Z])/ that starts at i: the index of its
\* last character (the capital of group 2), or 0 when there is no match at i.
abbreviationEnd(s, i) ==
    IF i <= Len(s) /\ s[i] \in Upper
    THEN LET j == RunEnd(s, i + 1, Lower)
         IN  IF /\ j > i + 1
                /\ j + 2 <= Len(s)
                /\ s[j] = "."
                /\ s[j + 1] \in WhiteSpace
                /\ s[j + 2] \in Upper
             THEN j + 2 ELSE 0
    ELSE 0

\* text.replace(/([A-Z][a-z]+\.)(\s[A-Z])/g, '$1_PERIOD_$2')
RECURSIVE protectFrom(_, _)
protectFrom(s, i) ==
    IF i > Len(s) THEN << >>
    ELSE LET e == abbreviationEnd(s, i)
         IN  IF e > 0
             THEN SubSeq(s, i, e - 2) \o MARKER \o SubSeq(s, e - 1, e)
                      \o protectFrom(s, e + 1)
             ELSE << s[i] >> \o protectFrom(s, i + 1)

protectAbbreviations(s) == protectFrom(s, 1)

\* A match of /(?<=[.!?])\s+(?=[A-Z"]|$)/ that starts at i: the index after the
\* match, or 0 when there is no match at i.
boundaryEnd(s, i) ==
    IF i > 1 /\ i <= Len(s) /\ s[i - 1] \in Terminator /\ s[i] \in WhiteSpace
    THEN LET k == RunEnd(s, i, WhiteSpace)
         IN  IF k > Len(s) \/ s[k] \in Upper \cup { "\"" } THEN k ELSE 0
    ELSE 0

\* preprocessed.split(/(?<=[.!?])\s+(?=[A-Z"]|$)/)
RECURSIVE splitFrom(_, _, _)
splitFrom(s, start, i) ==
    IF i > Len(s) THEN << SubSeq(s, start, Len(s)) >>
    ELSE LET k == boundaryEnd(s, i)
         IN  IF k > 0 THEN << SubSeq(s, start, i - 1) >> \o splitFrom(s, k, k)
             ELSE splitFrom(s, start, i + 1)

splitOnBoundaries(s) == splitFrom(s, 1, 1)

restoreMarker(s) == replaceAllFrom(s, 1, MARKER, << "." >>)

nonEmpty(s) == Len(s) > 0

splitSentences(text) ==
    LET preprocessed == protectAbbreviations(text)
        parts == splitOnBoundaries(preprocessed)
        restored == [ k \in 1..Len(parts) |-> trim(restoreMarker(parts[k])) ]
    IN  SelectSeq(restored, nonEmpty)

(***************************************************************************)
(* Tokenizer.tokenizeWords and Tokenizer.stemWord                          *)
(***************************************************************************)
\* The stopword set of stopwords.ts, which the tokenizer imports: lower-case
\* words, compared with the stems.  Common English function words stand for it.
STOPWORDS ==
    { << "t", "h", "e" >>, << "a" >>, << "a", "n" >>, << "a", "n", "d" >>,
      << "o", "r" >>, << "b", "u", "t" >>, << "i", "f" >>, << "i", "s" >>,
      << "a", "r", "e" >>, << "w", "a", "s" >>, << "w", "e", "r", "e" >>,
      << "b", "e" >>, << "b", "e", "e", "n" >>, << "a", "m" >>,
      << "o", "f" >>, << "t", "o" >>, << "i", "n" >>, << "o", "n" >>,
      << "a", "t" >>, << "b", "y" >>, << "f", "o", "r" >>,
      << "w", "i", "t", "h" >>, << "f", "r", "o", "m" >>, << "a", "s" >>,
      << "i", "t" >>, << "i", "t", "s" >>, << "h", "e" >>,
      << "s", "h", "e" >>, << "t", "h", "e", "y" >>, << "w", "e" >>,
      << "i" >>, << "y", "o", "u" >>, << "t", "h", "i", "s" >>,
      << "t", "h", "a", "t" >>, << "n", "o", "t" >>,
      << "w", "i", "l", "l" >>, << "h", "a", "v", "e" >>,
      << "h", "a", "s" >>, << "h", "a", "d" >>, << "d", "o" >> }

\* s.replace(/<pat>\b/gi, r) where pat is lower-case and ends in a letter: a
\* match needs the next character to be no word character (or the end).
RECURSIVE replaceSuffixWord(_, _, _, _)
replaceSuffixWord(s, i, pat, r) ==
    IF i > Len(s) THEN << >>
    ELSE IF /\ i + Len(pat) - 1 <= Len(s)
            /\ toLowerCase(SubSeq(s, i, i + Len(pat) - 1)) = pat
            /\ (i + Len(pat) > Len(s) \/ s[i + Len(pat)] \notin WordChar)
         THEN r \o replaceSuffixWord(s, i + Len(pat), pat, r)
         ELSE << s[i] >> \o replaceSuffixWord(s, i + 1, pat, r)

expandContractions(sentence) ==
    LET r1 == replaceSuffixWord(sentence, 1, << "n", "'", "t" >>, << " ", "n", "o", "t" >>)
        r2 == replaceSuffixWord(r1, 1, << "'", "l", "l" >>, << " ", "w", "i", "l", "l" >>)
        r3 == replaceSuffixWord(r2, 1, << "'", "r", "e" >>, << " ", "a", "r", "e" >>)
        r4 == replaceSuffixWord(r3, 1, << "'", "v", "e" >>, << " ", "h", "a", "v", "e" >>)
        r5 == replaceSuffixWord(r4, 1, << "'", "m" >>, << " ", "a", "m" >>)
    IN  replaceSuffixWord(r5, 1, << "'", "s" >>, << >>)

\* s.replace(/[^\w\s-]/g, ' ')
blankPunctuation(s) ==
    [ i \in 1..Len(s) |->
        IF s[i] \in WordChar \cup WhiteSpace \cup { "-" } THEN s[i] ELSE " " ]

\* s.split(/c+/) for a character class c, such as /\s+/ and /\n+/
RECURSIVE splitRunsFrom(_, _, _, _)
splitRunsFrom(s, start, i, class) ==
    IF i > Len(s) THEN << SubSeq(s, start, Len(s)) >>
    ELSE IF s[i] \in class
         THEN LET k == RunEnd(s, i, class)
              IN  << SubSeq(s, start, i - 1) >> \o splitRunsFrom(s, k, k, class)
         ELSE splitRunsFrom(s, start, i + 1, class)

\* s.split('-')
RECURSIVE splitHyphenFrom(_, _, _)
splitHyphenFrom(s, start, i) ==
    IF i > Len(s) THEN << SubSeq(s, start, Len(s)) >>
    ELSE IF s[i] = "-"
         THEN << SubSeq(s, start, i - 1) >> \o splitHyphenFrom(s, i + 1, i + 1)
         ELSE splitHyphenFrom(s, start, i + 1)

hasVowel(s) == \E i \in 1..Len(s) : s[i] \in Vowel

\* stemWord for a word without a hyphen (lines 64-84)
stemPlain(word) ==
    LET n == Len(word)
    IN  IF n <= 2 THEN word
        ELSE IF endsWith(word, << "i", "n", "g" >>) /\ n > 5 /\ hasVowel(SubSeq(word, 1, n - 3))
             THEN SubSeq(word, 1, n - 3)
        ELSE IF endsWith(word, << "e", "d" >>) /\ n > 4 /\ hasVowel(SubSeq(word, 1, n - 2))
             THEN SubSeq(word, 1, n - 2)
        ELSE IF endsWith(word, << "l", "y" >>) /\ n > 4 THEN SubSeq(word, 1, n - 2)
        ELSE IF endsWith(word, << "i", "e", "s" >>) /\ n > 4
             THEN SubSeq(word, 1, n - 3) \o << "y" >>
        ELSE IF endsWith(word, << "e", "s" >>) /\ n > 3 THEN SubSeq(word, 1, n - 2)
        ELSE IF endsWith(word, << "s" >>) /\ ~endsWith(word, << "s", "s" >>) /\ n > 3
             THEN SubSeq(word, 1, n - 1)
        ELSE word

stemWord(word) ==
    IF \E i \in 1..Len(word) : word[i] = "-"
    THEN LET parts == splitHyphenFrom(word, 1, 1)
         IN  join([ k \in 1..Len(parts) |-> stemPlain(parts[k]) ], << "-" >>)
    ELSE stemPlain(word)

notStopword(word) == word \notin STOPWORDS

tokenizeWords(sentence, removeStopwords) ==
    LET expanded == expandContractions(sentence)
        pieces == splitRunsFrom(blankPunctuation(toLowerCase(expanded)), 1, 1, WhiteSpace)
        words == SelectSeq([ k \in 1..Len(pieces) |-> trim(pieces[k]) ], nonEmpty)
        stemmedWords == [ k \in 1..Len(words) |-> stemWord(words[k]) ]
    IN  IF removeStopwords THEN SelectSeq(stemmedWords, notStopword) ELSE stemmedWords

(***************************************************************************)
(* Numbers.  The program computes with IEEE-754 doubles, and its results    *)
(* depend on their rounding (Math.sqrt(3) * Math.sqrt(3) is not 3).  A      *)
(* double is modelled exactly: [s, e, m] stands for s * m * 2^e, where the  *)
(* sign s is 1 or -1 and the mantissa m is a natural number of exactly 53   *)
(* bits, or zero.  A natural number is the sequence of its digits in base   *)
(* 2^15, least significant first, so that no product of two digits leaves  *)
(* the 32-bit integers.  Every operation rounds to nearest, ties to even.   *)
(* The numbers of this program stay far from the overflow and the           *)
(* subnormal range, which are not modelled.                                 *)
(***************************************************************************)
BASE == 2^15
LIMB == 15
PRECISION == 53

RECURSIVE BNorm(_)
BNorm(a) == IF Len(a) > 0 /\ a[Len(a)] = 0 THEN BNorm(SubSeq(a, 1, Len(a) - 1)) ELSE a

RECURSIVE BFromInt(_)
BFromInt(n) == IF n = 0 THEN << >> ELSE << n % BASE >> \o BFromInt(n \div BASE)

RECURSIVE BToIntAt(_, _)
BToIntAt(a, i) == IF i > Len(a) THEN 0 ELSE a[i] + BASE * BToIntAt(a, i + 1)
BToInt(a) == BToIntAt(a, 1)

BLimb(a, i) == IF i <= Len(a) THEN a[i] ELSE 0

RECURSIVE BAddAt(_, _, _, _)
BAddAt(a, b, i, c) ==
    IF i > Len(a) /\ i > Len(b) THEN (IF c = 0 THEN << >> ELSE << c >>)
    ELSE LET t == BLimb(a, i) + BLimb(b, i) + c
         IN  << t % BASE >> \o BAddAt(a, b, i + 1, t \div BASE)
BAdd(a, b) == BAddAt(a, b, 1, 0)

\* a - b for a >= b
RECURSIVE BSubAt(_, _, _, _)
BSubAt(a, b, i, c) ==
    IF i > Len(a) THEN << >>
    ELSE LET t == a[i] - BLimb(b, i) - c
         IN  IF t < 0 THEN << t + BASE >> \o BSubAt(a, b, i + 1, 1)
             ELSE << t >> \o BSubAt(a, b, i + 1, 0)
BSub(a, b) == BNorm(BSubAt(a, b, 1, 0))

\* -1, 0 or 1 as a < b, a = b or a > b (both without leading zero digits)
RECURSIVE BCmpAt(_, _, _)
BCmpAt(a, b, i) ==
    IF i = 0 THEN 0
    ELSE IF a[i] < b[i] THEN -1
    ELSE IF a[i] > b[i] THEN 1
    ELSE BCmpAt(a, b, i - 1)
BCmp(a, b) ==
    IF Len(a) < Len(b) THEN -1
    ELSE IF Len(a) > Len(b) THEN 1
    ELSE BCmpAt(a, b, Len(a))

RECURSIVE BMulLimbAt(_, _, _, _)
BMulLimbAt(a, d, i, c) ==
    IF i > Len(a) THEN (IF c = 0 THEN << >> ELSE << c >>)
    ELSE LET t == a[i] * d + c
         IN  << t % BASE >> \o BMulLimbAt(a, d, i + 1, t \div BASE)

RECURSIVE BMulAt(_, _, _)
BMulAt(a, b, j) ==
    IF j > Len(b) THEN << >>
    ELSE BAdd(BMulLimbAt(a, b[j], 1, 0), << 0 >> \o BMulAt(a, b, j + 1))
BMul(a, b) == BNorm(BMulAt(a, b, 1))

\* a * 2^k
BShl(a, k) ==
    IF Len(a) = 0 THEN << >>
    ELSE [ i \in 1..(k \div LIMB) |-> 0 ] \o BMulLimbAt(a, 2^(k % LIMB), 1, 0)

\* floor(a / 2^k)
BShr(a, k) ==
    LET q == k \div LIMB
        r == k % LIMB
    IN  IF q >= Len(a) THEN << >>
        ELSE BNorm([ i \in 1..(Len(a) - q) |->
                       (a[i + q] \div 2^r) + (BLimb(a, i + q + 1) % 2^r) * 2^(LIMB - r) ])

\* bit k of a (bit 0 is the least significant)
BBit(a, k) == (BLimb(a, k \div LIMB + 1) \div 2^(k % LIMB)) % 2

\* whether one of the bits 0..k-1 of a is set
BLowNonzero(a, k) ==
    \/ \E i \in 1..(k \div LIMB) : BLimb(a, i) # 0
    \/ BLimb(a, k \div LIMB + 1) % 2^(k % LIMB) # 0

\* the number of bits of a > 0
BBitLen(a) ==
    (Len(a) - 1) * LIMB + (CHOOSE k \in 1..LIMB : 2^(k - 1) <= a[Len(a)] /\ a[Len(a)] < 2^k)

\* Long division, a digit of the quotient at a time.  d has its leading digit
\* at least BASE / 2; q * d + r is the dividend throughout.  Each step
\* subtracts from r a multiple est * BASE^k of d that an underestimate of the
\* next quotient digit gives, until r < d.  The result is << quotient, r >>.
RECURSIVE BDivLoop(_, _, _)
BDivLoop(q, r, d) ==
    IF BCmp(r, d) < 0 THEN << q, r >>
    ELSE LET top == d[Len(d)] + 1
             k0 == Len(r) - Len(d)
             aligned == BCmp(r, [ i \in 1..k0 |-> 0 ] \o d) >= 0
             k == IF aligned THEN k0 ELSE k0 - 1
             guess == IF aligned THEN r[Len(r)] \div top
                      ELSE (r[Len(r)] * BASE + r[Len(r) - 1]) \div top
             est == IF guess = 0 THEN 1 ELSE guess
             zeros == [ i \in 1..k |-> 0 ]
         IN  BDivLoop(BAdd(q, zeros \o << est >>),
                      BSub(r, zeros \o BMulLimbAt(d, est, 1, 0)), d)

\* << floor(n / d), n mod d # 0 >> for d > 0
BDivide(n, d) ==
    LET sh == LIMB - BBitLen(<< d[Len(d)] >>)
        qr == BDivLoop(<< >>, BShl(n, sh), BShl(d, sh))
    IN  << qr[1], qr[2] # << >> >>

\* floor(sqrt(t)) of a small number t, between lo and hi, by bisection
RECURSIVE ISqrt(_, _, _)
ISqrt(t, lo, hi) ==
    IF lo >= hi THEN lo
    ELSE LET mid == (lo + hi + 1) \div 2
         IN  IF mid * mid <= t THEN ISqrt(t, mid, hi) ELSE ISqrt(t, lo, mid - 1)

\* Newton's iteration for floor(sqrt(n)) from a guess x >= floor(sqrt(n))
RECURSIVE BSqrtNewton(_, _)
BSqrtNewton(n, x) ==
    LET y == BShr(BAdd(x, BDivide(n, x)[1]), 1)
    IN  IF BCmp(y, x) >= 0 THEN x ELSE BSqrtNewton(n, y)

\* floor(sqrt(n)) for n > 0: the first guess comes from the leading digits
BSqrt(n) ==
    LET two == Len(n) >= 2 /\ Len(n) % 2 = 0
        lead == IF two THEN n[Len(n)] * BASE + n[Len(n) - 1] ELSE n[Len(n)]
        rest == IF two THEN Len(n) - 2 ELSE Len(n) - 1
        guess == [ i \in 1..(rest \div 2) |-> 0 ] \o BFromInt(ISqrt(lead, 0, BASE) + 1)
    IN  BSqrtNewton(n, guess)

DZero == [ s |-> 1, e |-> 0, m |-> << >> ]
IsZero(x) == x.m = << >>

\* The double nearest to s * n * 2^e (ties to even); inexact tells that the
\* exact value lies strictly between n * 2^e and (n + 1) * 2^e in magnitude
\* (n then has more than 53 bits).
DRound(s, n, e, inexact) ==
    IF n = << >> THEN DZero
    ELSE LET len == BBitLen(n)
         IN  IF len <= PRECISION
             THEN [ s |-> s, e |-> e - (PRECISION - len), m |-> BShl(n, PRECISION - len) ]
             ELSE LET sh == len - PRECISION
                      q == BShr(n, sh)
                      half == BBit(n, sh - 1) = 1
                      rest == inexact \/ BLowNonzero(n, sh - 1)
                      up == half /\ (rest \/ q[1] % 2 = 1)
                      q1 == IF up THEN BAdd(q, << 1 >>) ELSE q
                  IN  IF BBitLen(q1) > PRECISION
                      THEN [ s |-> s, e |-> e + sh + 1, m |-> BShr(q1, 1) ]
                      ELSE [ s |-> s, e |-> e + sh, m |-> q1 ]

\* Number(n) for an integer n
DFromInt(n) == DRound(IF n < 0 THEN -1 ELSE 1, BFromInt(IF n < 0 THEN -n ELSE n), 0, FALSE)

DNeg(x) == IF IsZero(x) THEN x ELSE [ x EXCEPT !.s = -@ ]

\* x * y
DMul(x, y) ==
    IF IsZero(x) \/ IsZero(y) THEN DZero
    ELSE DRound(x.s * y.s, BMul(x.m, y.m), x.e + y.e, FALSE)

\* x + y
DAdd(x, y) ==
    IF IsZero(x) THEN y
    ELSE IF IsZero(y) THEN x
    ELSE LET e == IF x.e < y.e THEN x.e ELSE y.e
             a == BShl(x.m, x.e - e)
             b == BShl(y.m, y.e - e)
             c == BCmp(a, b)
         IN  IF x.s = y.s THEN DRound(x.s, BAdd(a, b), e, FALSE)
             ELSE IF c = 0 THEN DZero
             ELSE IF c > 0 THEN DRound(x.s, BSub(a, b), e, FALSE)
             ELSE DRound(y.s, BSub(b, a), e, FALSE)

\* x - y
DSub(x, y) == DAdd(x, DNeg(y))

\* x / y for y # 0
DDiv(x, y) ==
    IF IsZero(x) THEN DZero
    ELSE LET qr == BDivide(BShl(x.m, PRECISION + 3), y.m)
         IN  DRound(x.s * y.s, qr[1], x.e - y.e - (PRECISION + 3), qr[2])

\* Math.sqrt(x) for x >= 0
DSqrt(x) ==
    IF IsZero(x) THEN DZero
    ELSE LET odd == x.e % 2 = 1
             e == IF odd THEN x.e - 1 ELSE x.e
             n == BShl(x.m, (IF odd THEN 1 ELSE 0) + 2 * (PRECISION \div 2 + 3))
             root == BSqrt(n)
         IN  DRound(1, root, e \div 2 - (PRECISION \div 2 + 3), BCmp(BMul(root, root), n) # 0)

\* -1, 0 or 1 as x < y, x = y or x > y
DCmp(x, y) ==
    IF IsZero(x) /\ IsZero(y) THEN 0
    ELSE IF IsZero(x) THEN -y.s
    ELSE IF IsZero(y) THEN x.s
    ELSE IF x.s # y.s THEN x.s
    ELSE IF x.e # y.e THEN (IF x.e > y.e THEN x.s ELSE -x.s)
    ELSE x.s * BCmp(x.m, y.m)

DLess(x, y) == DCmp(x, y) < 0

\* Math.min and Math.max
DMin(x, y) == IF DLess(y, x) THEN y ELSE x
DMax(x, y) == IF DLess(x, y) THEN y ELSE x

\* Math.floor(x) as an integer
DFloor(x) ==
    IF IsZero(x) THEN 0
    ELSE LET whole == IF x.e >= 0 THEN BToInt(BShl(x.m, x.e)) ELSE BToInt(BShr(x.m, -x.e))
             exact == x.e >= 0 \/ ~BLowNonzero(x.m, -x.e)
         IN  IF x.s = 1 THEN whole
             ELSE IF exact THEN -whole ELSE -whole - 1

\* the double a decimal literal num/den denotes, such as 0.85 = 85/100
DLiteral(num, den) == DDiv(DFromInt(num), DFromInt(den))

(***************************************************************************)
(* TextRank (textrank.ts)                                                  *)
(***************************************************************************)
DAMPING == DLiteral(85, 100)
MAX_ITERATIONS == 50
CONVERGENCE_THRESHOLD == DLiteral(1, 10000)

Range(xs) == { xs[i] : i \in 1..Len(xs) }

\* TextRank.calculateSimilarity
calculateSimilarity(sentence1, sentence2) ==
    LET words1 == Range(tokenizeWords(sentence1, TRUE))
        words2 == Range(tokenizeWords(sentence2, TRUE))
        intersection == { word \in words1 : word \in words2 }
    IN  IF Cardinality(words1) = 0 \/ Cardinality(words2) = 0 THEN DZero
        ELSE DDiv(DFromInt(Cardinality(intersection)),
                  DMul(DSqrt(DFromInt(Cardinality(words1))),
                       DSqrt(DFromInt(Cardinality(words2)))))

\* a faulty matrix: the diagonal holds the similarity of a sentence to itself
buildSimilarityMatrixWithDiagonal(sentences) ==
    [ i \in 1..Len(sentences) |->
        [ j \in 1..Len(sentences) |->
            calculateSimilarity(sentences[i], sentences[j]) ] ]

\* TextRank.buildSimilarityMatrix
buildSimilarityMatrix(sentences) ==
    [ i \in 1..Len(sentences) |->
        [ j \in 1..Len(sentences) |->
            IF i # j THEN calculateSimilarity(sentences[i], sentences[j]) ELSE DZero ] ]

\* xs.reduce((a, b) => a + b, 0), from index i with a so far
RECURSIVE DSumFrom(_, _, _)
DSumFrom(xs, i, a) == IF i > Len(xs) THEN a ELSE DSumFrom(xs, i + 1, DAdd(a, xs[i]))
DSum(xs) == DSumFrom(xs, 1, DZero)

\* a row of the normalized matrix (lines 67-70)
\* a faulty normalisation: every row becomes the uniform row
normalizeRowUniform(row, n) == [ k \in 1..Len(row) |-> DDiv(DFromInt(1), DFromInt(n)) ]

normalizeRow(row, n) ==
    LET sum == DSum(row)
    IN  IF IsZero(sum) THEN [ k \in 1..Len(row) |-> DDiv(DFromInt(1), DFromInt(n)) ]
        ELSE [ k \in 1..Len(row) |-> DDiv(row[k], sum) ]

normalizeMatrix(matrix) ==
    [ i \in 1..Len(matrix) |-> normalizeRow(matrix[i], Len(matrix)) ]

\* a faulty inner loop that reads the matrix transposed
RECURSIVE accumulateTransposed(_, _, _, _, _)
accumulateTransposed(matrix, old, i, j, acc) ==
    IF j > Len(old) THEN acc
    ELSE accumulateTransposed(matrix, old, i, j + 1,
             IF i # j
             THEN DAdd(acc, DMul(DMul(DAMPING, matrix[i][j]), old[j]))
             ELSE acc)

\* whether the inner loop adds sentence j's share to newScores[i] (line 81)
contributes(i, j) == i # j

\* the inner loop over j (lines 80-84), from j with newScores[i] = acc so far
RECURSIVE accumulateFrom(_, _, _, _, _)
accumulateFrom(matrix, old, i, j, acc) ==
    IF j > Len(old) THEN acc
    ELSE accumulateFrom(matrix, old, i, j + 1,
             IF contributes(i, j)
             THEN DAdd(acc, DMul(DMul(DAMPING, matrix[j][i]), old[j]))
             ELSE acc)

\* the outer loop over i (lines 79-86), from i: the new scores
RECURSIVE updateFrom(_, _, _, _)
updateFrom(matrix, old, i, teleport) ==
    IF i > Len(old) THEN << >>
    ELSE << DAdd(accumulateFrom(matrix, old, i, 1, DZero), teleport) >>
             \o updateFrom(matrix, old, i + 1, teleport)

updateScores(matrix, old) ==
    updateFrom(matrix, old, 1, DDiv(DSub(DFromInt(1), DAMPING), DFromInt(Len(old))))

\* lines 88-91: Math.pow(x, 2) is x * x
distance(old, new) ==
    DSqrt(DSum([ idx \in 1..Len(old) |->
                   LET d == DSub(old[idx], new[idx]) IN DMul(d, d) ]))

\* a faulty loop condition that allows one round too many
loopContinuesPastCap(isConverged, iter) == ~isConverged /\ iter <= MAX_ITERATIONS

\* the loop condition (line 76)
loopContinues(isConverged, iter) == ~isConverged /\ iter < MAX_ITERATIONS

\* Array(n).fill(1/n)
initialScores(n) == [ i \in 1..n |-> DDiv(DFromInt(1), DFromInt(n)) ]

(***************************************************************************)
(* Summarizer (summarizer.ts)                                              *)
(***************************************************************************)
\* Math.log(totalDocs / df) for 1 <= df <= totalDocs <= 8 as the engine that
\* runs the code computes it (the fdlibm algorithm of V8); at 3/1, 6/2, 7/5
\* and 8/5 that is the double next below the one nearest to the logarithm:
\* LOG_RATIO[totalDocs][df]
LOG_RATIO ==
    << << [ s |-> 1, e |-> 0, m |-> << >> ] >>,
       << [ s |-> 1, e |-> -53, m |-> << 14831, 32244, 14603, 177 >> ],
          [ s |-> 1, e |-> 0, m |-> << >> ] >>,
       << [ s |-> 1, e |-> -52, m |-> << 778, 30042, 20393, 140 >> ],
          [ s |-> 1, e |-> -54, m |-> << 6220, 22911, 19599, 207 >> ],
          [ s |-> 1, e |-> 0, m |-> << >> ] >>,
       << [ s |-> 1, e |-> -52, m |-> << 14831, 32244, 14603, 177 >> ],
          [ s |-> 1, e |-> -53, m |-> << 14831, 32244, 14603, 177 >> ],
          [ s |-> 1, e |-> -54, m |-> << 23441, 8809, 9608, 147 >> ],
          [ s |-> 1, e |-> 0, m |-> << >> ] >>,
       << [ s |-> 1, e |-> -52, m |-> << 3379, 28635, 263, 206 >> ],
          [ s |-> 1, e |-> -53, m |-> << 24696, 25025, 18691, 234 >> ],
          [ s |-> 1, e |-> -53, m |-> << 5202, 29954, 25275, 130 >> ],
          [ s |-> 1, e |-> -55, m |-> << 6690, 3893, 16351, 228 >> ],
          [ s |-> 1, e |-> 0, m |-> << >> ] >>,
       << [ s |-> 1, e |-> -52, m |-> << 8194, 29780, 11311, 229 >> ],
          [ s |-> 1, e |-> -52, m |-> << 778, 30042, 20393, 140 >> ],
          [ s |-> 1, e |-> -53, m |-> << 14831, 32244, 14603, 177 >> ],
          [ s |-> 1, e |-> -54, m |-> << 6220, 22911, 19599, 207 >> ],
          [ s |-> 1, e |-> -55, m |-> << 5749, 9161, 22848, 186 >> ],
          [ s |-> 1, e |-> 0, m |-> << >> ] >>,
       << [ s |-> 1, e |-> -52, m |-> << 23127, 23652, 2506, 249 >> ],
          [ s |-> 1, e |-> -52, m |-> << 15712, 23914, 11588, 160 >> ],
          [ s |-> 1, e |-> -53, m |-> << 11930, 19989, 29761, 216 >> ],
          [ s |-> 1, e |-> -53, m |-> << 16592, 15584, 8573, 143 >> ],
          [ s |-> 1, e |-> -54, m |-> << 13454, 12838, 8971, 172 >> ],
          [ s |-> 1, e |-> -55, m |-> << 21163, 16515, 27862, 157 >> ],
          [ s |-> 1, e |-> 0, m |-> << >> ] >>,
       << [ s |-> 1, e |-> -51, m |-> << 11123, 32375, 2760, 133 >> ],
          [ s |-> 1, e |-> -52, m |-> << 14831, 32244, 14603, 177 >> ],
          [ s |-> 1, e |-> -53, m |-> << 10168, 3881, 3024, 251 >> ],
          [ s |-> 1, e |-> -53, m |-> << 14831, 32244, 14603, 177 >> ],
          [ s |-> 1, e |-> -54, m |-> << 9934, 13390, 21032, 240 >> ],
          [ s |-> 1, e |-> -54, m |-> << 23441, 8809, 9608, 147 >> ],
          [ s |-> 1, e |-> -55, m |-> << 25722, 1103, 24122, 136 >> ],
          [ s |-> 1, e |-> 0, m |-> << >> ] >> >>

\* the number of elements of xs that are x
RECURSIVE countIn(_, _)
countIn(xs, x) ==
    IF Len(xs) = 0 THEN 0
    ELSE (IF Head(xs) = x THEN 1 ELSE 0) + countIn(Tail(xs), x)

\* Summarizer.calculateTfIdf: the map of the words to their scores
calculateTfIdf(sentences) ==
    LET totalDocs == Len(sentences)
        words == [ k \in 1..totalDocs |-> tokenizeWords(sentences[k], TRUE) ]
        vocabulary == UNION { Range(words[k]) : k \in 1..totalDocs }
        RECURSIVE wordFrequency(_, _)
        wordFrequency(w, k) ==
            IF k > totalDocs THEN 0 ELSE countIn(words[k], w) + wordFrequency(w, k + 1)
        documentFrequency(w) ==
            Cardinality({ k \in 1..totalDocs : w \in Range(words[k]) })
    IN  [ w \in vocabulary |->
            DMul(DFromInt(wordFrequency(w, 1)), LOG_RATIO[totalDocs][documentFrequency(w)]) ]

\* lines 151-154
basePosition(localIdx, paragraphSentCount) ==
    IF paragraphSentCount <= 1 THEN DFromInt(1)
    ELSE IF localIdx = 0 THEN DFromInt(1)
    ELSE IF localIdx = paragraphSentCount - 1 THEN DLiteral(8, 10)
    ELSE DSub(DLiteral(5, 10),
              DMul(DLiteral(4, 10), DDiv(DFromInt(localIdx), DFromInt(paragraphSentCount))))

\* a faulty weighting: the test for the last paragraph comes first
weighParagraphLastFirst(score, paragraphIdx, paragraphCount) ==
    IF paragraphIdx = paragraphCount - 1 THEN DMul(score, DLiteral(11, 10))
    ELSE IF paragraphIdx = 0 THEN DMul(score, DLiteral(12, 10))
    ELSE score

\* lines 156-157
weighParagraph(score, paragraphIdx, paragraphCount) ==
    IF paragraphIdx = 0 THEN DMul(score, DLiteral(12, 10))
    ELSE IF paragraphIdx = paragraphCount - 1 THEN DMul(score, DLiteral(11, 10))
    ELSE score

\* line 159
clamp(score) == DMax(DZero, DMin(DFromInt(1), score))

positionScore(localIdx, paragraphSentCount, paragraphIdx, paragraphCount) ==
    clamp(weighParagraph(basePosition(localIdx, paragraphSentCount),
                         paragraphIdx, paragraphCount))

\* text.split(/\n+/).map(p => p.trim()).filter(p => p.length > 0)
\* a faulty line 138 that forgets to trim the paragraphs
splitParagraphsUntrimmed(text) ==
    SelectSeq(splitRunsFrom(text, 1, 1, { "\n" }), nonEmpty)

splitParagraphs(text) ==
    LET parts == splitRunsFrom(text, 1, 1, { "\n" })
    IN  SelectSeq([ k \in 1..Len(parts) |-> trim(parts[k]) ], nonEmpty)

\* the inner forEach (lines 149-170) for one paragraph, from local index localIdx
RECURSIVE sentencesOfParagraph(_, _, _, _, _, _)
sentencesOfParagraph(split, localIdx, paragraphIdx, paragraphCount, globalIndex, favor) ==
    IF localIdx >= Len(split) THEN << >>
    ELSE << [ index |-> globalIndex,
              text |-> split[localIdx + 1],
              paragraph |-> paragraphIdx,
              length |-> Len(tokenizeWords(split[localIdx + 1], FALSE)),
              position |-> IF favor
                           THEN positionScore(localIdx, Len(split), paragraphIdx, paragraphCount)
                           ELSE DLiteral(5, 10) ] >>
         \o sentencesOfParagraph(split, localIdx + 1, paragraphIdx, paragraphCount,
                                 globalIndex + 1, favor)

\* the outer forEach (lines 145-171), from paragraph paragraphIdx
RECURSIVE segmentFrom(_, _, _, _)
segmentFrom(paras, paragraphIdx, globalIndex, favor) ==
    IF paragraphIdx >= Len(paras) THEN << >>
    ELSE LET split == splitSentences(paras[paragraphIdx + 1])
         IN  sentencesOfParagraph(split, 0, paragraphIdx, Len(paras), globalIndex, favor)
                 \o segmentFrom(paras, paragraphIdx + 1, globalIndex + Len(split), favor)

segment(paras, favor) == segmentFrom(paras, 0, 0, favor)

\* words.reduce((sum, word) => sum + (tfIdfScores.get(word) || 0), 0)
RECURSIVE sumTfIdf(_, _, _, _)
sumTfIdf(words, tfIdf, k, acc) ==
    IF k > Len(words) THEN acc
    ELSE sumTfIdf(words, tfIdf, k + 1,
                  DAdd(acc, IF words[k] \in DOMAIN tfIdf THEN tfIdf[words[k]] ELSE DZero))

\* lines 76-86: the final score of one sentence
finalScore(sentence, tfIdf, textRankScore) ==
    LET words == tokenizeWords(sentence.text, TRUE)
        tfIdfScore == DDiv(sumTfIdf(words, tfIdf, 1, DZero),
                           DFromInt(IF Len(words) > 1 THEN Len(words) ELSE 1))
        positionPart == sentence.position
        lengthScore == DMin(DFromInt(1), DDiv(DFromInt(sentence.length), DFromInt(10)))
    IN  DAdd(DAdd(DAdd(DMul(DLiteral(4, 10), tfIdfScore),
                       DMul(DLiteral(3, 10), textRankScore)),
                  DMul(DLiteral(2, 10), positionPart)),
             DMul(DLiteral(1, 10), lengthScore))

\* Summarizer.scoreSentences after its call of rankSentences: the map of the
\* sentence indices to the final scores
scoreSentences(withMetadata, tfIdf, textRankScores) ==
    [ index \in { withMetadata[k].index : k \in 1..Len(withMetadata) } |->
        LET k == CHOOSE k \in 1..Len(withMetadata) : withMetadata[k].index = index
        IN  finalScore(withMetadata[k], tfIdf, textRankScores[k]) ]

\* xs.sort(cmp) for a comparator that says whether b must come before a: the
\* sort is stable, an element moves only before those it must precede
RECURSIVE insertSorted(_, _, _)
insertSorted(sorted, x, before) ==
    IF Len(sorted) = 0 THEN << x >>
    ELSE IF before[<< x.index, sorted[Len(sorted)].index >>]
         THEN insertSorted(SubSeq(sorted, 1, Len(sorted) - 1), x, before)
                  \o << sorted[Len(sorted)] >>
         ELSE sorted \o << x >>

RECURSIVE sortFrom(_, _, _, _)
sortFrom(xs, k, sorted, before) ==
    IF k > Len(xs) THEN sorted
    ELSE sortFrom(xs, k + 1, insertSorted(sorted, xs[k], before), before)

\* line 185: .sort((a, b) => b.score - a.score)
sortByScore(xs, sentenceScores) ==
    sortFrom(xs, 1, << >>,
             [ p \in { << a.index, b.index >> : a \in Range(xs), b \in Range(xs) } |->
                 DLess(sentenceScores[p[2]], sentenceScores[p[1]]) ])

\* a faulty sort that leaves the array as it is
keepOrder(xs) == xs

\* lines 193 and 204: .sort((a, b) => a.index - b.index)
sortByIndex(xs) ==
    sortFrom(xs, 1, << >>,
             [ p \in { << a.index, b.index >> : a \in Range(xs), b \in Range(xs) } |->
                 p[1] < p[2] ])

SIMILARITY_THRESHOLD == DLiteral(6, 10)

\* line 108
isDuplicate(candidate, result) ==
    \E k \in 1..Len(result) :
        DLess(SIMILARITY_THRESHOLD, calculateSimilarity(candidate.text, result[k].text))

\* Summarizer.deduplicateSentences: the forEach from candidate k
RECURSIVE deduplicateFrom(_, _, _)
deduplicateFrom(candidates, k, result) ==
    IF k > Len(candidates) THEN result
    ELSE deduplicateFrom(candidates, k + 1,
             IF isDuplicate(candidates[k], result) THEN result
             ELSE result \o << candidates[k] >>)

deduplicateSentences(candidates) == deduplicateFrom(candidates, 1, << >>)

\* lines 179-181; maxSentences is << >> when the argument is undefined
targetCount(maxSentences, summaryRatio, total) ==
    IF maxSentences # << >> /\ maxSentences[1] # 0
    THEN (IF maxSentences[1] < total THEN maxSentences[1] ELSE total)
    ELSE LET byRatio == DFloor(DMul(DFromInt(total), summaryRatio))
         IN  IF byRatio > 1 THEN byRatio ELSE 1

\* lines 183-187
topSentencesOf(withMetadata, sentenceScores, count, deduplicate) ==
    slice(sortByScore(withMetadata, sentenceScores), 0,
          IF deduplicate THEN count * 2 ELSE count)

\* lines 189-191
selectSentences(top, count, deduplicate) ==
    IF deduplicate THEN slice(deduplicateSentences(top), 0, count) ELSE top

\* lines 198-201: the keys of the map in insertion order
RECURSIVE paragraphKeys(_, _, _)
paragraphKeys(selected, k, keys) ==
    IF k > Len(selected) THEN keys
    ELSE paragraphKeys(selected, k + 1,
             IF selected[k].paragraph \in Range(keys) THEN keys
             ELSE keys \o << selected[k].paragraph >>)

inParagraph(selected, p) ==
    LET RECURSIVE pick(_)
        pick(k) == IF k > Len(selected) THEN << >>
                   ELSE (IF selected[k].paragraph = p THEN << selected[k] >> ELSE << >>)
                            \o pick(k + 1)
    IN  pick(1)

\* lines 203-209 for one entry of the map
paragraphSummary(group) ==
    LET ordered == sortByIndex(group)
    IN  join([ k \in 1..Len(ordered) |-> ordered[k].text ], << " " >>)

\* a faulty grouping: the selection is not sorted by index before the map is
\* filled, so that the keys come in the order of the selection
assembleInSelectionOrder(selected) ==
    LET keys == paragraphKeys(selected, 1, << >>)
        summaries == [ k \in 1..Len(keys) |-> paragraphSummary(inParagraph(selected, keys[k])) ]
    IN  join(SelectSeq(summaries, nonEmpty), << "\n", "\n" >>)

\* lines 193-211
assemble(selected) ==
    LET ordered == sortByIndex(selected)
        keys == paragraphKeys(ordered, 1, << >>)
        summaries == [ k \in 1..Len(keys) |-> paragraphSummary(inParagraph(ordered, keys[k])) ]
    IN  join(SelectSeq(summaries, nonEmpty), << "\n", "\n" >>)

(***************************************************************************)
(* The inputs of the model.  A text given to summarize is the              *)
(* concatenation of at most MaxPieces consecutive pieces of a document of   *)
(* Corpus; a sentence list given to rankSentences is a run of at most       *)
(* MaxRankSentences consecutive sentences of a document of RankCorpus; the  *)
(* sentences given to calculateSimilarity are those of RankCorpus and of    *)
(* SimilarityExtra.                                                        *)
(***************************************************************************)
Corpus ==
    << << << "D", "r", ".", " ", "F", "o", "x", " ", "n", "a", "p", "s", ".", " " >>,
          << "C", "a", "t", "s", " ", "n", "a", "p", "!", " " >>,
          << "\n" >>,
          << "B", "i", "g", " ", "c", "a", "t", "s", " ", "n", "a", "p", ".", " " >>,
          << "D", "o", "g", "s", " ", "b", "a", "r", "k", "." >>,
          << " ", "\n" >>,
          << "I", "t", " ", "i", "s", "." >> >>,
       << << " " >>,
          << "\n" >>,
          << "\t", " " >>,
          << "C", "a", "t", "s", " ", "p", "u", "r", "r", ".", " ", "\n", "\n" >>,
          << "C", "a", "t", "s", " ", "p", "u", "r", "r", "!", " " >>,
          << "D", "o", "g", "s", " ", "b", "a", "r", "k", ".", " " >>,
          << "B", "i", "g", " ", "c", "a", "t", "s", " ", "p", "u", "r", "r", "." >> >>,
       << << "A", "_", "P", "E", "R", "I", "O", "D", "_", "B", " ", "r", "a", "n", ".", " " >>,
          << "M", "r", ".", " ", "E", "d", " ", "r", "a", "n", ".", "\n" >>,
          << "H", "e", " ", "w", "o", "n", "'", "t", " ", "n", "a", "p", ".", " " >>,
          << "c", "a", "t", "s", " ", "n", "a", "p", "?" >>,
          << " ", "E", "d", "'", "s", " ", "d", "o", "g", " ", "r", "a", "n", "." >> >>,
       << << "E", "d", " ", "r", "a", "n", ".", "\n" >>,
          << "C", "a", "t", "s", " ", "n", "a", "p", ".", " ", "D", "o", "g", "s", " ", "b", "a", "r", "k", ".", " ", "F", "o", "x", " ", "n", "a", "p", "s", ".", "\n" >>,
          << "C", "a", "t", "s", " ", "p", "u", "r", "r", ".", " " >>,
          << "I", "t", " ", "i", "s", "." >> >> >>

RankCorpus ==
    << << << "c", "a", "t", " ", "d", "o", "g", "." >>,
          << "c", "a", "t", " ", "f", "i", "s", "h", "." >>,
          << "d", "o", "g", " ", "b", "i", "r", "d" >>,
          << "C", "a", "t", "s", " ", "p", "u", "r", "r", "." >>,
          << "D", "o", "g", "s", " ", "b", "a", "r", "k", "." >> >>,
       << << "C", "a", "t", "s", " ", "p", "u", "r", "r", "." >>,
          << "C", "a", "t", "s", " ", "p", "u", "r", "r", "!" >>,
          << "B", "i", "g", " ", "c", "a", "t", "s", " ", "p", "u", "r", "r", "." >>,
          << "I", "t", " ", "i", "s", "." >>,
          << "c", "a", "t", " ", "d", "o", "g", "." >> >>,
       << << "D", "o", "g", "s", " ", "b", "a", "r", "k", "." >>,
          << "I", "t", " ", "i", "s", "." >>,
          << "I", "t", " ", "i", "s", "." >>,
          << "c", "a", "t", " ", "f", "i", "s", "h", "." >>,
          << "d", "o", "g", " ", "b", "i", "r", "d" >>,
          << "B", "i", "g", " ", "c", "a", "t", "s", " ", "p", "u", "r", "r", "." >> >>,
       << << "B", "i", "g", " ", "c", "a", "t", " ", "d", "o", "g", " ", "f", "i", "s", "h", "." >>,
          << "B", "i", "g", " ", "c", "a", "t", "s", " ", "p", "u", "r", "r", "." >>,
          << "C", "a", "t", "s", " ", "p", "u", "r", "r", "." >> >> >>

SimilarityExtra ==
    { << "c", "a", "t", " ", "d", "o", "g", " ", "b", "i", "r", "d" >>,
      << "b", "i", "r", "d", ",", " ", "d", "o", "g", ";", " ", "c", "a", "t", "!" >>,
      << "R", "u", "n", "n", "i", "n", "g", " ", "d", "o", "g", "s" >>,
      << "T", "h", "e", " ", "d", "o", "g", " ", "r", "u", "n", "s", "." >> }

MaxPieces == 4
MaxRankSentences == 3

\* the runs of at most max consecutive elements of the documents of corpus
Windows(corpus, max) ==
    UNION { { SubSeq(corpus[d], i, i + k - 1) :
                i \in 1..(Len(corpus[d]) - k + 1) } :
            d \in 1..Len(corpus), k \in 0..max }

Texts == { join(w, << >>) : w \in Windows(Corpus, MaxPieces) }
RankInputs == Windows(RankCorpus, MaxRankSentences)
SimilarityInputs ==
    UNION { Range(RankCorpus[d]) : d \in 1..Len(RankCorpus) } \cup SimilarityExtra

\* the values of the arguments of summarize: maxSentences is << >> when it is
\* left undefined, and summaryRatio 0.3 is the default
MaxSentencesChoices == { << >>, << -1 >>, << 0 >>, << 1 >>, << 2 >>, << 3 >> }
SummaryRatioChoices == { DLiteral(3, 10), DLiteral(5, 10), DLiteral(15, 10) }

(***************************************************************************)
(* State                                                                   *)
(***************************************************************************)
VARIABLES
    pc,                     \* where the program is
    text,                   \* summarize: its first argument
    args,                   \* summarize: the other arguments it has read so far
    paragraphs,             \* summarize: line 138
    sentencesWithMetadata,  \* summarize: line 142
    tfIdfScores,            \* summarize: line 175
    sentenceScores,         \* summarize: line 177
    sentenceCount,          \* summarize: line 179
    topSentences,           \* summarize: line 183
    selectedSentences,      \* summarize: line 189
    output,                 \* summarize: the string it returned
    sentences,              \* rankSentences: its argument
    similarityMatrix,       \* rankSentences: line 65
    normalizedMatrix,       \* rankSentences: line 67
    scores,                 \* rankSentences: line 72
    iteration,              \* rankSentences: line 73
    converged,              \* rankSentences: line 74
    diff,                   \* rankSentences: line 88, of the last round
    ranked,                 \* rankSentences: the array it returned
    sentence1, sentence2,   \* calculateSimilarity: its arguments
    similarity              \* calculateSimilarity: the number it returned

sumVars == << text, args, paragraphs, sentencesWithMetadata, tfIdfScores, sentenceScores,
              sentenceCount, topSentences, selectedSentences, output >>
rankVars == << sentences, similarityMatrix, normalizedMatrix, scores, iteration,
               converged, diff, ranked >>
simVars == << sentence1, sentence2, similarity >>
vars == << pc, sumVars, rankVars, simVars >>

(***************************************************************************)
(* TextRank.rankSentences, a loop round at a time                          *)
(***************************************************************************)
\* line 62
RankEmpty ==
    /\ pc = "rankSentences"
    /\ Len(sentences) = 0
    /\ ranked' = << >>
    /\ pc' = "ranked"
    /\ UNCHANGED << sentences, similarityMatrix, normalizedMatrix, scores,
                    iteration, converged, diff, sumVars, simVars >>

\* line 63
RankSingle ==
    /\ pc = "rankSentences"
    /\ Len(sentences) = 1
    /\ ranked' = << DFromInt(1) >>
    /\ pc' = "ranked"
    /\ UNCHANGED << sentences, similarityMatrix, normalizedMatrix, scores,
                    iteration, converged, diff, sumVars, simVars >>

\* lines 65-74
RankStart ==
    /\ pc = "rankSentences"
    /\ Len(sentences) >= 2
    /\ similarityMatrix' = buildSimilarityMatrix(sentences)
    /\ normalizedMatrix' = normalizeMatrix(similarityMatrix')
    /\ scores' = initialScores(Len(sentences))
    /\ iteration' = 0
    /\ converged' = FALSE
    /\ pc' = "rankLoop"
    /\ UNCHANGED << sentences, diff, ranked, sumVars, simVars >>

\* lines 76-96: one round of the while loop
RankRound ==
    /\ pc = "rankLoop"
    /\ loopContinues(converged, iteration)
    /\ scores' = updateScores(normalizedMatrix, scores)
    /\ diff' = distance(scores, scores')
    /\ converged' = DLess(diff', CONVERGENCE_THRESHOLD)
    /\ iteration' = iteration + 1
    /\ UNCHANGED << pc, sentences, similarityMatrix, normalizedMatrix, ranked, sumVars, simVars >>

\* line 98
RankReturn ==
    /\ pc = "rankLoop"
    /\ ~loopContinues(converged, iteration)
    /\ ranked' = scores
    /\ pc' = "ranked"
    /\ UNCHANGED << sentences, similarityMatrix, normalizedMatrix, scores,
                    iteration, converged, diff, sumVars, simVars >>

\* the variables of rankSentences before it is called
RankIdle ==
    /\ similarityMatrix = << >>
    /\ normalizedMatrix = << >>
    /\ scores = << >>
    /\ iteration = 0
    /\ converged = FALSE
    /\ diff = DZero
    /\ ranked = << >>

\* the variables of summarize before it is called
SummarizeIdle ==
    /\ args = << >>
    /\ paragraphs = << >>
    /\ sentencesWithMetadata = << >>
    /\ tfIdfScores = << >>
    /\ sentenceScores = << >>
    /\ sentenceCount = 0
    /\ topSentences = << >>
    /\ selectedSentences = << >>
    /\ output = << >>

SimilarityIdle ==
    /\ sentence1 = << >>
    /\ sentence2 = << >>
    /\ similarity = DZero

\* a direct call of rankSentences
InitRank ==
    /\ pc = "rankSentences"
    /\ sentences \in RankInputs
    /\ RankIdle
    /\ text = << >>
    /\ SummarizeIdle
    /\ SimilarityIdle

NextRank == RankEmpty \/ RankSingle \/ RankStart \/ RankRound \/ RankReturn

SpecRank == InitRank /\ [][NextRank]_vars

(***************************************************************************)
(* Summarizer.summarize, a stage at a time.  An argument other than text    *)
(* enters args when summarize first reads it: summarize assigns to no       *)
(* argument, so its runs are those of a call with these values.             *)
(***************************************************************************)
\* lines 136-140
Enter ==
    /\ pc = "summarize"
    /\ IF Len(text) = 0
       THEN /\ output' = << >>
            /\ pc' = "done"
            /\ UNCHANGED paragraphs
       ELSE /\ paragraphs' = splitParagraphs(text)
            /\ IF Len(paragraphs') = 0
               THEN output' = << >> /\ pc' = "done"
               ELSE output' = output /\ pc' = "segment"
    /\ UNCHANGED << text, args, sentencesWithMetadata, tfIdfScores, sentenceScores,
                    sentenceCount, topSentences, selectedSentences, rankVars, simVars >>

\* a faulty line 173 that returns the sentence instead of the text
SegmentReturnsSentence ==
    /\ pc = "segment"
    /\ \E favorPositionScore \in BOOLEAN :
          /\ args' = args @@ ("favorPositionScore" :> favorPositionScore)
          /\ sentencesWithMetadata' = segment(paragraphs, favorPositionScore)
    /\ IF Len(sentencesWithMetadata') <= 1
       THEN output' = join([ k \in 1..Len(sentencesWithMetadata') |->
                               sentencesWithMetadata'[k].text ], << >>) /\ pc' = "done"
       ELSE output' = output /\ pc' = "calculateTfIdf"
    /\ UNCHANGED << text, paragraphs, tfIdfScores, sentenceScores, sentenceCount,
                    topSentences, selectedSentences, rankVars, simVars >>

\* lines 142-173
Segment ==
    /\ pc = "segment"
    /\ \E favorPositionScore \in BOOLEAN :
          /\ args' = args @@ ("favorPositionScore" :> favorPositionScore)
          /\ sentencesWithMetadata' = segment(paragraphs, favorPositionScore)
    /\ IF Len(sentencesWithMetadata') <= 1
       THEN output' = text /\ pc' = "done"
       ELSE output' = output /\ pc' = "calculateTfIdf"
    /\ UNCHANGED << text, paragraphs, tfIdfScores, sentenceScores, sentenceCount,
                    topSentences, selectedSentences, rankVars, simVars >>

\* line 175, and line 177 up to the call of rankSentences on line 73
TfIdf ==
    /\ pc = "calculateTfIdf"
    /\ tfIdfScores' = calculateTfIdf([ k \in 1..Len(sentencesWithMetadata) |->
                                         sentencesWithMetadata[k].text ])
    /\ sentences' = [ k \in 1..Len(sentencesWithMetadata) |-> sentencesWithMetadata[k].text ]
    /\ pc' = "rankSentences"
    /\ UNCHANGED << text, args, paragraphs, sentencesWithMetadata, sentenceScores,
                    sentenceCount, topSentences, selectedSentences, output,
                    similarityMatrix, normalizedMatrix, scores, iteration, converged,
                    diff, ranked, simVars >>

\* lines 75-91: scoreSentences after rankSentences has returned
Score ==
    /\ pc = "ranked"
    /\ sentenceScores' = scoreSentences(sentencesWithMetadata, tfIdfScores, ranked)
    /\ pc' = "select"
    /\ UNCHANGED << text, args, paragraphs, sentencesWithMetadata, tfIdfScores,
                    sentenceCount, topSentences, selectedSentences, output, rankVars,
                    simVars >>

\* lines 179-191
Select ==
    /\ pc = "select"
    /\ \E maxSentences \in MaxSentencesChoices, deduplicateSimilar \in BOOLEAN :
          \E summaryRatio \in IF maxSentences # << >> /\ maxSentences[1] # 0
                              THEN { DZero } ELSE SummaryRatioChoices :
             /\ args' = IF maxSentences # << >> /\ maxSentences[1] # 0
                        THEN args @@ ("maxSentences" :> maxSentences)
                                  @@ ("deduplicateSimilar" :> deduplicateSimilar)
                        ELSE args @@ ("maxSentences" :> maxSentences)
                                  @@ ("summaryRatio" :> summaryRatio)
                                  @@ ("deduplicateSimilar" :> deduplicateSimilar)
             /\ sentenceCount' = targetCount(maxSentences, summaryRatio,
                                             Len(sentencesWithMetadata))
             /\ topSentences' = topSentencesOf(sentencesWithMetadata, sentenceScores,
                                               sentenceCount', deduplicateSimilar)
             /\ selectedSentences' = selectSentences(topSentences', sentenceCount',
                                                     deduplicateSimilar)
    /\ pc' = "assemble"
    /\ UNCHANGED << text, paragraphs, sentencesWithMetadata, tfIdfScores, sentenceScores,
                    output, rankVars, simVars >>

\* lines 193-211; the sort of line 193 is in place, and without deduplication
\* selectedSentences and topSentences are one array
Assemble ==
    /\ pc = "assemble"
    /\ selectedSentences' = sortByIndex(selectedSentences)
    /\ topSentences' = IF args.deduplicateSimilar THEN topSentences
                       ELSE selectedSentences'
    /\ output' = assemble(selectedSentences)
    /\ pc' = "done"
    /\ UNCHANGED << text, args, paragraphs, sentencesWithMetadata, tfIdfScores,
                    sentenceScores, sentenceCount, rankVars, simVars >>

\* a call of summarize
Init ==
    /\ pc = "summarize"
    /\ text \in Texts
    /\ SummarizeIdle
    /\ sentences = << >>
    /\ RankIdle
    /\ SimilarityIdle

Next == Enter \/ Segment \/ TfIdf \/ RankStart \/ RankRound \/ RankReturn \/ Score
            \/ Select \/ Assemble

Spec == Init /\ [][Next]_vars

(***************************************************************************)
(* TextRank.calculateSimilarity                                            *)
(***************************************************************************)
Compare ==
    /\ pc = "calculateSimilarity"
    /\ similarity' = calculateSimilarity(sentence1, sentence2)
    /\ pc' = "compared"
    /\ UNCHANGED << sentence1, sentence2, sumVars, rankVars >>

InitSimilarity ==
    /\ pc = "calculateSimilarity"
    /\ sentence1 \in SimilarityInputs
    /\ sentence2 \in SimilarityInputs
    /\ similarity = DZero
    /\ text = << >>
    /\ SummarizeIdle
    /\ sentences = << >>
    /\ RankIdle

NextSimilarity == Compare

SpecSimilarity == InitSimilarity /\ [][NextSimilarity]_vars

\* a call of rankSentences runs on until it returns, the code being sequential:
\* weak fairness of NextRank, whose steps are possible exactly while
\* pc # "ranked"
FairSpecRank == SpecRank /\ ([]<>(pc = "ranked") \/ []<><<NextRank>>_vars)

(***************************************************************************)
(* Properties of summarize                                                 *)
(***************************************************************************)
\* piece occurs in whole as a run of consecutive characters
occursIn(piece, whole) ==
    \E i \in 1..(Len(whole) + 1) : startsWithAt(whole, i, piece)

\* summarize went through selection
Selected == pc \in { "assemble", "done" } /\ "deduplicateSimilar" \in DOMAIN args

\* the target count as the documentation states it: min(maxSentences, N) for a
\* supplied maxSentences, max(1, floor(N * summaryRatio)) otherwise
Target ==
    LET N == Len(sentencesWithMetadata)
    IN  IF args.maxSentences # << >>
        THEN (IF args.maxSentences[1] < N THEN args.maxSentences[1] ELSE N)
        ELSE LET byRatio == DFloor(DMul(DFromInt(N), args.summaryRatio))
             IN  IF byRatio > 1 THEN byRatio ELSE 1

\* the number of sentences that come before s in descending score order
scoreRank(s) ==
    Cardinality({ t \in Range(sentencesWithMetadata) :
                    \/ DLess(sentenceScores[s.index], sentenceScores[t.index])
                    \/ /\ sentenceScores[s.index] = sentenceScores[t.index]
                       /\ t.index < s.index })

tooSimilar(a, b) == DLess(DLiteral(6, 10), calculateSimilarity(a.text, b.text))

\* C1: for a text of at least two sentences, every sentence summarize puts in
\* its output is a run of consecutive characters of the input text
C1_OutputSentencesAreVerbatim ==
    Selected =>
        \A k \in 1..Len(selectedSentences) : occursIn(selectedSentences[k].text, text)

\* C1: "Dr. Fox naps. Cats nap! " with maxSentences 2 comes out with the
\* period of the abbreviation doubled
C1_DoubledPeriod ==
    /\ pc = "done"
    /\ text = Corpus[1][1] \o Corpus[1][2]
    /\ output = << "D", "r", ".", ".", " ", "F", "o", "x", " ", "n", "a", "p", "s", ".", " ", "C", "a", "t", "s", " ", "n", "a", "p", "!" >>

\* C2: with deduplication off, summarize selects min(target, N) sentences,
\* the target being min(maxSentences, N) for every supplied maxSentences
\* and max(1, floor(N * summaryRatio)) when none is supplied
C2_SelectsTargetCount ==
    Selected /\ ~args.deduplicateSimilar =>
        Len(selectedSentences) =
            (IF Target < Len(sentencesWithMetadata) THEN Target
             ELSE Len(sentencesWithMetadata))

\* C2: maxSentences 0 selects a sentence
C2_ZeroSelectsOne ==
    /\ pc = "done"
    /\ Selected
    /\ args.maxSentences = << 0 >>
    /\ ~args.deduplicateSimilar
    /\ Len(selectedSentences) = 1
    /\ output # << >>

\* C3: the output is the selected sentences in ascending index, a space
\* between two of one paragraph, a blank line between two of different
\* paragraphs
C3_ReadingOrder ==
    pc = "done" /\ "deduplicateSimilar" \in DOMAIN args =>
        LET chosen == { selectedSentences[k].index : k \in 1..Len(selectedSentences) }
            inOrder == SelectSeq(sentencesWithMetadata, LAMBDA s : s.index \in chosen)
            separator(k) == IF inOrder[k].paragraph = inOrder[k - 1].paragraph
                            THEN << " " >> ELSE << "\n", "\n" >>
            RECURSIVE laidOutFrom(_)
            laidOutFrom(k) ==
                IF k > Len(inOrder) THEN << >>
                ELSE (IF k = 1 THEN << >> ELSE separator(k))
                         \o inOrder[k].text \o laidOutFrom(k + 1)
        IN  /\ Cardinality(chosen) = Len(selectedSentences)
            /\ \A k \in 1..(Len(inOrder) - 1) : inOrder[k].index < inOrder[k + 1].index
            /\ output = laidOutFrom(1)

\* C3: an output with both separators whose first sentence scores lower than
\* a later one
C3_BothSeparators ==
    /\ pc = "done"
    /\ Len(selectedSentences) >= 3
    /\ \E a, b \in Range(selectedSentences) :
          /\ a.index < b.index
          /\ DLess(sentenceScores[a.index], sentenceScores[b.index])
    /\ \E a, b \in Range(selectedSentences) :
          a.index + 1 = b.index /\ a.paragraph = b.paragraph
    /\ \E a, b \in Range(selectedSentences) : a.paragraph # b.paragraph
    /\ \E i \in 1..Len(output) : startsWithAt(output, i, << ".", "\n", "\n" >>)
    /\ \E i \in 1..Len(output) : startsWithAt(output, i, << ".", " " >>)

\* C4: with deduplication on, the selection holds no two sentences more than
\* 0.6 similar, at most the target count of sentences, only sentences among
\* the top 2 x target by score, and a candidate exactly when it is not more
\* than 0.6 similar to a higher-scored kept one
C4_Deduplicated ==
    Selected /\ args.deduplicateSimilar =>
        LET kept == Range(selectedSentences)
            pool == { s \in Range(sentencesWithMetadata) : scoreRank(s) < 2 * Target }
            keptAbove(c) == { k \in kept : scoreRank(k) < scoreRank(c) }
        IN  /\ \A a, b \in kept : a # b => ~tooSimilar(a, b)
            /\ Len(selectedSentences) <= Target
            /\ kept \subseteq pool
            /\ \A c \in pool :
                  c \in kept <=> /\ Cardinality(keptAbove(c)) < Target
                                 /\ \A k \in keptAbove(c) : ~tooSimilar(k, c)

\* C4: maxSentences -1 with deduplication on selects a sentence
C4_NegativeSelectsOne ==
    /\ pc = "done"
    /\ Selected
    /\ args.deduplicateSimilar
    /\ args.maxSentences = << -1 >>
    /\ Len(sentencesWithMetadata) = 4
    /\ Len(selectedSentences) = 1

\* C5: for the empty text and for a text of whitespace and newlines only,
\* summarize returns the empty string without reading an argument and without
\* segmenting, scoring or ranking
C5_BlankTextGivesEmpty ==
    (\A i \in 1..Len(text) : text[i] \in WhiteSpace) =>
        /\ pc \in { "summarize", "done" }
        /\ pc = "done" => output = << >>
        /\ args = << >>
        /\ sentencesWithMetadata = << >>
        /\ tfIdfScores = << >>
        /\ sentenceScores = << >>
        /\ selectedSentences = << >>
        /\ sentences = << >>
        /\ RankIdle

\* C5: a text of blanks and a newline has returned the empty string
C5_BlankReturned ==
    /\ pc = "done"
    /\ \E i, j \in 1..Len(text) : text[i] = "\n" /\ text[j] = " "
    /\ \A i \in 1..Len(text) : text[i] \in WhiteSpace
    /\ output = << >>

\* C6 as stated: for a text that segments into at most one sentence,
\* summarize returns the text
C6_AtMostOneSentenceReturnsText ==
    Len(segment(splitParagraphs(text), FALSE)) <= 1 =>
        (pc = "done" => output = text)

\* C6: for a text that segments into exactly one sentence, summarize returns
\* the text unchanged, without TF-IDF, ranking or selection and without
\* reading summaryRatio, maxSentences or deduplicateSimilar
C6_SingleSentenceReturnsText ==
    Len(segment(splitParagraphs(text), FALSE)) = 1 =>
        /\ pc \in { "summarize", "segment", "done" }
        /\ pc = "done" => output = text
        /\ DOMAIN args \subseteq { "favorPositionScore" }
        /\ tfIdfScores = << >>
        /\ sentenceScores = << >>
        /\ selectedSentences = << >>
        /\ sentences = << >>
        /\ RankIdle

\* C6: a text of one sentence with blanks around it has come back whole
C6_PaddedSentenceReturned ==
    /\ pc = "done"
    /\ Len(sentencesWithMetadata) = 1
    /\ output = text
    /\ text # sentencesWithMetadata[1].text
    /\ text[1] \in WhiteSpace

(***************************************************************************)
(* Properties of rankSentences and calculateSimilarity                     *)
(***************************************************************************)
DAbs(x) == [ x EXCEPT !.s = 1 ]

\* C7: for at least two sentences the scores sum to 1 within 0.01, after
\* every round and on return
C7_ScoresSumToOne ==
    pc \in { "rankLoop", "ranked" } /\ Len(sentences) >= 2 =>
        DLess(DAbs(DSub(DSum(scores), DFromInt(1))), DLiteral(1, 100))

\* C7: "Cats purr." and "Dogs bark." share no token and come back with scores
\* that sum to less than 0.3
C7_MassLost ==
    /\ pc = "ranked"
    /\ sentences = SubSeq(RankCorpus[1], 4, 5)
    /\ DLess(DSum(ranked), DLiteral(3, 10))

\* C8: rankSentences returns [] for no sentence, [1] for one sentence, and for
\* N sentences N scores of which entry i is the score of sentence i: in every
\* round it is the teleport share plus the damped shares that the other
\* sentences j give to sentence i, weighed by the similarity of sentences j
\* and i of the input
C8_OneScorePerSentence ==
    /\ [](pc = "ranked" =>
            /\ Len(ranked) = Len(sentences)
            /\ Len(sentences) = 0 => ranked = << >>
            /\ Len(sentences) = 1 => ranked = << DFromInt(1) >>
            /\ Len(sentences) >= 2 => ranked = scores)
    /\ [][ iteration' # iteration =>
             LET n == Len(sentences)
                 row(j) == [ k \in 1..n |->
                               IF k = j THEN DZero
                               ELSE calculateSimilarity(sentences[j], sentences[k]) ]
                 weight(j, i) == IF IsZero(DSum(row(j)))
                                 THEN DDiv(DFromInt(1), DFromInt(n))
                                 ELSE DDiv(row(j)[i], DSum(row(j)))
                 share(j, i) == DMul(DMul(DLiteral(85, 100), weight(j, i)), scores[j])
                 others(i) == SelectSeq([ j \in 1..n |-> j ], LAMBDA j : j # i)
                 teleport == DDiv(DSub(DFromInt(1), DLiteral(85, 100)), DFromInt(n))
             IN  /\ Len(scores') = n
                 /\ \A i \in 1..n :
                       scores'[i] =
                           DAdd(DSum([ k \in 1..(n - 1) |-> share(others(i)[k], i) ]),
                                teleport) ]_vars

\* C8: three sentences have come back with three scores, the first two different
C8_ThreeScores ==
    /\ pc = "ranked"
    /\ Len(sentences) = 3
    /\ Len(ranked) = 3
    /\ ranked[1] # ranked[2]
    /\ iteration > 1

\* C9: calculateSimilarity is in [0, 1], 0 when a sentence has no token left,
\* and 1 when the two token sets are the same non-empty set
C9_SimilarityInUnitInterval ==
    pc = "compared" =>
        LET A == Range(tokenizeWords(sentence1, TRUE))
            B == Range(tokenizeWords(sentence2, TRUE))
        IN  /\ ~DLess(similarity, DZero)
            /\ ~DLess(DFromInt(1), similarity)
            /\ A = {} \/ B = {} => similarity = DZero
            /\ A = B /\ A # {} => similarity = DFromInt(1)

\* C9: "cat dog bird" compared with itself gives more than 1
C9_AboveOne ==
    /\ pc = "compared"
    /\ sentence1 = sentence2
    /\ Cardinality(Range(tokenizeWords(sentence1, TRUE))) = 3
    /\ DLess(DFromInt(1), similarity)

\* C10: for at least two sentences rankSentences returns after 1 to 50 rounds:
\* a round runs only while no round has measured a distance below 0.0001
\* between the old and the new scores and fewer than 50 rounds have run, and
\* the newest scores are returned
C10_StopsWithinCap ==
    /\ [](Len(sentences) >= 2 =>
            /\ iteration \in 0..50
            /\ iteration > 0 => (converged <=> DLess(diff, DLiteral(1, 10000)))
            /\ pc = "ranked" => /\ iteration >= 1
                                /\ converged \/ iteration = 50
                                /\ ranked = scores)
    /\ [][ iteration' # iteration =>
             /\ ~converged
             /\ iteration < 50
             /\ iteration' = iteration + 1
             /\ diff' = DSqrt(DSum([ k \in 1..Len(scores) |->
                                       DMul(DSub(scores[k], scores'[k]),
                                            DSub(scores[k], scores'[k])) ])) ]_vars
    /\ <>(pc = "ranked")

\* C10: a call has returned after round 50 without converging
C10_StoppedAtCap ==
    /\ pc = "ranked"
    /\ iteration = 50
    /\ ~converged
    /\ ranked = scores

inUnitInterval(x) == ~DLess(x, DZero) /\ ~DLess(DFromInt(1), x)

\* the rows of the normalized matrix are the rows of the similarity matrix
\* divided by their positive sums, and uniform where that sum is 0
rowsDivided ==
    /\ Len(normalizedMatrix) = Len(sentences)
    /\ \A i \in 1..Len(sentences) :
          LET sum == DSum(similarityMatrix[i])
              row == normalizedMatrix[i]
          IN  /\ Len(row) = Len(sentences)
              /\ \A k \in 1..Len(row) : inUnitInterval(row[k])
              /\ IF IsZero(sum)
                    THEN \A k \in 1..Len(row) :
                           row[k] = DDiv(DFromInt(1), DFromInt(Len(sentences)))
                    ELSE /\ DLess(DZero, sum)
                         /\ \A k \in 1..Len(row) :
                               row[k] = DDiv(similarityMatrix[i][k], sum)

\* C11 (as stated): in rankSentences every row of the normalized matrix has
\* entries in [0,1] that sum to exactly 1; a row of similarities that sum to 0
\* is the uniform row 1/N and every other row is divided by its positive sum
C11_RowsSumToOne ==
    pc \in { "rankLoop", "ranked" } /\ Len(sentences) >= 2 =>
        /\ rowsDivided
        /\ \A i \in 1..Len(sentences) : DSum(normalizedMatrix[i]) = DFromInt(1)

\* C11 (amended): in rankSentences every row of the normalized matrix has
\* entries in [0,1] that sum to 1 within the rounding of the additions (less
\* than 1e-9 away from 1); a row of similarities that sum to 0 is the uniform
\* row 1/N and every other row is divided by its positive sum, so that no
\* division by zero occurs
C11_RowsSumToOneRounded ==
    pc \in { "rankLoop", "ranked" } /\ Len(sentences) >= 2 =>
        /\ rowsDivided
        /\ \A i \in 1..Len(sentences) :
              DLess(DAbs(DSub(DSum(normalizedMatrix[i]), DFromInt(1))),
                    DLiteral(1, 1000000000))

\* C11: the similarities of "Cats purr." to the two sentences before it are
\* positive, and the row divided by their sum adds up to less than 1
C11_RowRoundsBelowOne ==
    /\ pc = "rankLoop"
    /\ sentences = RankCorpus[4]
    /\ DLess(DZero, similarityMatrix[3][1])
    /\ DLess(DZero, similarityMatrix[3][2])
    /\ DLess(DSum(normalizedMatrix[3]), DFromInt(1))

\* C12: the similarity matrix built for N sentences has N rows of N entries,
\* every diagonal entry is 0, and the matrix is symmetric: entry [i][j] and
\* entry [j][i] are equal, each being calculateSimilarity of sentences i and j
C12_SimilarityMatrixSymmetric ==
    pc \in { "rankLoop", "ranked" } /\ Len(sentences) >= 2 =>
        /\ Len(similarityMatrix) = Len(sentences)
        /\ \A i \in 1..Len(sentences) :
              /\ Len(similarityMatrix[i]) = Len(sentences)
              /\ similarityMatrix[i][i] = DZero
              /\ \A j \in 1..Len(sentences) \ { i } :
                    /\ similarityMatrix[i][j] = similarityMatrix[j][i]
                    /\ similarityMatrix[i][j] =
                           calculateSimilarity(sentences[i], sentences[j])
                    /\ similarityMatrix[j][i] =
                           calculateSimilarity(sentences[i], sentences[j])

\* C12: a matrix for three sentences has been built in which "Big cat dog
\* fish." is less similar to "Cats purr." than to "Big cats purr.", and the
\* entries mirrored in the diagonal are the same
C12_ThreeByThree ==
    /\ pc = "ranked"
    /\ sentences = RankCorpus[4]
    /\ DLess(DZero, similarityMatrix[1][3])
    /\ DLess(similarityMatrix[1][3], similarityMatrix[1][2])
    /\ similarityMatrix[3][1] = similarityMatrix[1][3]
    /\ similarityMatrix[2][1] = similarityMatrix[1][2]
    /\ similarityMatrix[2][2] = DZero

(***************************************************************************)
(* Properties of the segmentation and of the paragraph blocks              *)
(***************************************************************************)
\* the sentences of the paragraph of sentence k, as places in the list
sameParagraph(k) ==
    { j \in 1..Len(sentencesWithMetadata) :
        sentencesWithMetadata[j].paragraph = sentencesWithMetadata[k].paragraph }

\* C13: the position stored for every sentence lies in [0,1]; with
\* favorPositionScore set it is base * m cut off at 0 and 1, where base is 1
\* for the first or only sentence of a paragraph, 0.8 for the last sentence of
\* a paragraph of at least 2 and 0.5 - 0.4 * (localIndex / count) in between,
\* and m is 1.2 in paragraph 0, 1.1 in the last paragraph when that is not
\* paragraph 0 and 1 otherwise; with favorPositionScore unset it is 0.5
C13_PositionValues ==
    "favorPositionScore" \in DOMAIN args =>
        \A k \in 1..Len(sentencesWithMetadata) :
            LET s == sentencesWithMetadata[k]
                count == Cardinality(sameParagraph(k))
                localIndex == Cardinality({ j \in sameParagraph(k) : j < k })
                base == IF localIndex = 0 THEN DFromInt(1)
                        ELSE IF localIndex = count - 1 THEN DLiteral(8, 10)
                        ELSE DSub(DLiteral(5, 10),
                                  DMul(DLiteral(4, 10),
                                       DDiv(DFromInt(localIndex), DFromInt(count))))
                m == IF s.paragraph = 0 THEN DLiteral(12, 10)
                     ELSE IF s.paragraph = Len(paragraphs) - 1 THEN DLiteral(11, 10)
                     ELSE DFromInt(1)
                product == DMul(base, m)
                clamped == IF DLess(product, DZero) THEN DZero
                           ELSE IF DLess(DFromInt(1), product) THEN DFromInt(1)
                           ELSE product
            IN  /\ inUnitInterval(s.position)
                /\ s.position = IF args.favorPositionScore THEN clamped
                                 ELSE DLiteral(5, 10)

\* C13: a text of three paragraphs has been segmented with favorPositionScore
\* set: its first sentence is cut off at 1, the second of the three sentences
\* of the middle paragraph has 0.5 - 0.4 * (1 / 3), the third 0.8, and the
\* last sentence of the last paragraph 0.8 * 1.1
C13_ThreeParagraphs ==
    /\ pc = "calculateTfIdf"
    /\ args.favorPositionScore
    /\ text = join(Corpus[4], << >>)
    /\ Len(paragraphs) = 3
    /\ Len(sentencesWithMetadata) = 6
    /\ sentencesWithMetadata[1].position = DFromInt(1)
    /\ sentencesWithMetadata[3].position =
           DSub(DLiteral(5, 10), DMul(DLiteral(4, 10), DDiv(DFromInt(1), DFromInt(3))))
    /\ sentencesWithMetadata[4].position = DLiteral(8, 10)
    /\ sentencesWithMetadata[6].position = DMul(DLiteral(8, 10), DLiteral(11, 10))

\* the pieces of s between the blank lines, the empty pieces included
RECURSIVE blocksFrom(_, _, _)
blocksFrom(s, start, i) ==
    IF i > Len(s) THEN << SubSeq(s, start, Len(s)) >>
    ELSE IF startsWithAt(s, i, << "\n", "\n" >>)
         THEN << SubSeq(s, start, i - 1) >> \o blocksFrom(s, i + 2, i + 2)
         ELSE blocksFrom(s, start, i + 1)

blocksOf(s) == IF s = << >> THEN << >> ELSE blocksFrom(s, 1, 1)

\* C14: the indices of the segmented sentences rise by one through the
\* document and their paragraph numbers never fall; the keys of the grouping
\* map are inserted in ascending paragraph number; and the output of summarize
\* has exactly one block for every paragraph with a selected sentence, in
\* ascending paragraph number, none of them empty, each holding the selected
\* sentences of its paragraph
C14_BlocksInParagraphOrder ==
    /\ \A k \in 1..Len(sentencesWithMetadata) :
          /\ sentencesWithMetadata[k].index = k - 1
          /\ k > 1 => sentencesWithMetadata[k - 1].paragraph
                          <= sentencesWithMetadata[k].paragraph
    /\ pc = "done" /\ "deduplicateSimilar" \in DOMAIN args =>
          LET keys == paragraphKeys(selectedSentences, 1, << >>)
              present == { selectedSentences[k].paragraph : k \in 1..Len(selectedSentences) }
              chosen == { selectedSentences[k].index : k \in 1..Len(selectedSentences) }
              blocks == blocksOf(output)
              members(p) == SelectSeq(sentencesWithMetadata,
                                      LAMBDA s : s.index \in chosen /\ s.paragraph = p)
          IN  /\ Range(keys) = present
              /\ \A k \in 1..(Len(keys) - 1) : keys[k] < keys[k + 1]
              /\ Len(blocks) = Cardinality(present)
              /\ \A k \in 1..Len(blocks) :
                    /\ blocks[k] # << >>
                    /\ blocks[k] = join([ j \in 1..Len(members(keys[k])) |->
                                            members(keys[k])[j].text ], << " " >>)

\* C14: an output of three blocks, one of them with two sentences, where a
\* selected sentence of a later paragraph scores higher than one of an
\* earlier paragraph
C14_ThreeBlocks ==
    /\ pc = "done"
    /\ "deduplicateSimilar" \in DOMAIN args
    /\ Len(blocksOf(output)) = 3
    /\ Cardinality({ selectedSentences[k].paragraph : k \in 1..Len(selectedSentences) }) = 3
    /\ Len(selectedSentences) >= 4
    /\ \E a, b \in Range(selectedSentences) :
          /\ a.paragraph < b.paragraph
          /\ DLess(sentenceScores[a.index], sentenceScores[b.index])

=============================================================================
